---- MODULE Spec2Model ----
(***************************************************************************)
(* A model of the GraphQL query compiler (query.go) and of the transport   *)
(* shim that consumes it (Client.Run).                                     *)
(*                                                                         *)
(* Go strings are sequences of one-character strings, so that ordering,    *)
(* prefixes and last characters can be computed; Join turns one into a     *)
(* TLA+ string where a literal is easier to read.  A reflect.Type is a     *)
(* record: [kind |-> "ptr" | "slice" | "array", elem], a struct            *)
(* [kind |-> "struct", name, fields, unmarshal] or any other kind          *)
(* [kind |-> "int" | "bool" | "string" | "chan", name].                    *)
(***************************************************************************)
EXTENDS Naturals, Sequences, FiniteSets, TLC

VARIABLES
    call,          \* the compiler function last applied, its arguments and result
    c,             \* the Client
    op,            \* the Operation Client.Run is running
    pc,            \* the statement of Client.Run to execute next
    in,            \* the request body Run encodes
    req,           \* the *http.Request
    resp,          \* what the server answered
    modifyCalls,   \* calls of op.ModifyRequest in this execution of Run
    handlerCalls,  \* calls of op.RequestHandler in this execution of Run
    sent,          \* whether the request went out
    err            \* what Run returns

vars == <<call, c, op, pc, in, req, resp, modifyCalls, handlerCalls, sent, err>>

runVars == <<c, op, pc, in, req, resp, modifyCalls, handlerCalls, sent, err>>

(***************************************************************************)
(* Bounds of the model.                                                    *)
(***************************************************************************)
\* Pointer and list wrappers around a base type in a type handed directly
\* to writeArgumentType or writeQuery.
MaxDepth == 2

\* Entries of a variables map handed to queryArguments.
MaxVars == 2

\* Fields of the record whose selection set is compiled.
MaxFields == 2

(***************************************************************************)
(* Strings.                                                                *)
(***************************************************************************)
RECURSIVE Join(_)
Join(s) == IF s = <<>> THEN "" ELSE Head(s) \o Join(Tail(s))

Last(s) == s[Len(s)]

\* The byte of a character, for the characters variable names use.
Ord(ch) ==
    CASE ch = "B" -> 66
      [] ch = "a" -> 97
      [] ch = "b" -> 98

\* Go's s < t on strings: bytewise, a proper prefix first.
RECURSIVE StringLess(_, _)
StringLess(s, t) ==
    IF t = <<>> THEN FALSE
    ELSE IF s = <<>> THEN TRUE
    ELSE IF Ord(Head(s)) # Ord(Head(t)) THEN Ord(Head(s)) < Ord(Head(t))
    ELSE StringLess(Tail(s), Tail(t))

RECURSIVE Insert(_, _)
Insert(k, sorted) ==
    IF sorted = <<>> THEN <<k>>
    ELSE IF StringLess(Head(sorted), k) THEN <<Head(sorted)>> \o Insert(k, Tail(sorted))
    ELSE <<k>> \o sorted

RECURSIVE InsertionSort(_)
InsertionSort(keys) ==
    IF keys = <<>> THEN <<>> ELSE Insert(Head(keys), InsertionSort(Tail(keys)))

\* A sort that leaves the keys in the order the map iteration produced.
SortStringsUnsorted(keys) == keys

\* sort.Strings(keys).
SortStrings(keys) == InsertionSort(keys)

(***************************************************************************)
(* Types.                                                                  *)
(***************************************************************************)
Ptr(t) == [kind |-> "ptr", elem |-> t]

Slice(t) == [kind |-> "slice", elem |-> t]

Array(t) == [kind |-> "array", elem |-> t]

Wrappers(S) == {Ptr(t) : t \in S} \cup {Slice(t) : t \in S} \cup {Array(t) : t \in S}

RECURSIVE Wrapped(_, _)
Wrapped(S, d) == IF d = 0 THEN S ELSE S \cup Wrappers(Wrapped(S, d - 1))

\* graphql.Int, graphql.Boolean, graphql.String and the host string.
TInt == [kind |-> "int", name |-> <<"I", "n", "t">>]

TBoolean == [kind |-> "bool", name |-> <<"B", "o", "o", "l", "e", "a", "n">>]

TString == [kind |-> "string", name |-> <<"S", "t", "r", "i", "n", "g">>]

Tstring == [kind |-> "string", name |-> <<"s", "t", "r", "i", "n", "g">>]

\* An unnamed channel type: no GraphQL name, and encoding/json refuses it.
TChan == [kind |-> "chan", name |-> <<>>]

ArgBase == {TInt, TBoolean, TString, Tstring}

ArgTypes == Wrapped(ArgBase, MaxDepth)

(***************************************************************************)
(* writeArgumentType.                                                      *)
(***************************************************************************)
\* The flag a pointer hands to its element, were it to pass its own on.
PtrElemValueKept(value) == value

\* The flag a pointer hands to its element.
PtrElemValue(value) == FALSE

\* The flag a list hands to its element, were it to pass its own on.
ListElemValueKept(value) == value

\* The flag a list hands to its element.
ListElemValue(value) == TRUE

\* The name of a named type, without the substitution for string.
TypeNamePlain(t) == t.name

\* The name of a named type, the host string being ID.
TypeName(t) == IF t.name = <<"s", "t", "r", "i", "n", "g">> THEN <<"I", "D">> ELSE t.name

RECURSIVE writeArgumentType(_, _)
writeArgumentType(t, value) ==
    IF t.kind = "ptr"
    THEN writeArgumentType(t.elem, PtrElemValue(value))
    ELSE (IF t.kind \in {"slice", "array"}
          THEN <<"[">> \o writeArgumentType(t.elem, ListElemValue(value)) \o <<"]">>
          ELSE TypeName(t))
         \o (IF value THEN <<"!">> ELSE <<>>)

(***************************************************************************)
(* queryArguments.                                                         *)
(***************************************************************************)
\* The orders in which a range loop may visit the keys of a map.
IterOrders(variables) ==
    LET K == DOMAIN variables
        n == Cardinality(K)
    IN {o \in [1..n -> K] : \A i, j \in 1..n : i # j => o[i] # o[j]}

RECURSIVE writeArguments(_, _)
writeArguments(variables, keys) ==
    IF keys = <<>> THEN <<>>
    ELSE <<"$">> \o Head(keys) \o <<":">>
         \o writeArgumentType(variables[Head(keys)], TRUE)
         \o writeArguments(variables, Tail(keys))

\* iter is the order in which the range loop visited the map.
queryArguments(variables, iter) == writeArguments(variables, SortStrings(iter))

VarNames == {<<"a">>, <<"b">>, <<"a", "b">>, <<"B">>}

VarTypes == Wrapped(ArgBase, 1)

MapsOver(names, types) ==
    UNION {[K -> types] : K \in {S \in SUBSET names : Cardinality(S) <= MaxVars}}

VarMaps == MapsOver(VarNames, VarTypes)

(***************************************************************************)
(* ident.ParseMixedCaps and Name.ToLowerCamelCase.                         *)
(***************************************************************************)
ToLowerChar(ch) ==
    CASE ch = "A" -> "a"
      [] ch = "B" -> "b"
      [] ch = "C" -> "c"
      [] ch = "F" -> "f"
      [] ch = "I" -> "i"
      [] ch = "S" -> "s"
      [] ch = "T" -> "t"
      [] OTHER -> ch

IsUpper(ch) == ToLowerChar(ch) # ch

ToLower(s) == [i \in 1..Len(s) |-> ToLowerChar(s[i])]

\* A word ends at i when the identifier does, when a lower-case letter is
\* followed by an upper-case one, or inside a run of upper-case letters
\* before the last of them when a lower-case letter follows that one.
WordEndsAt(s, i) ==
    \/ i = Len(s)
    \/ ~IsUpper(s[i]) /\ IsUpper(s[i + 1])
    \/ IsUpper(s[i]) /\ IsUpper(s[i + 1]) /\ i + 1 < Len(s) /\ ~IsUpper(s[i + 2])

FirstWordEnd(s) == CHOOSE i \in 1..Len(s) :
    WordEndsAt(s, i) /\ \A j \in 1..(i - 1) : ~WordEndsAt(s, j)

RECURSIVE ParseMixedCaps(_)
ParseMixedCaps(s) ==
    IF s = <<>> THEN <<>>
    ELSE <<SubSeq(s, 1, FirstWordEnd(s))>>
         \o ParseMixedCaps(SubSeq(s, FirstWordEnd(s) + 1, Len(s)))

RECURSIVE Concat(_)
Concat(words) == IF words = <<>> THEN <<>> ELSE Head(words) \o Concat(Tail(words))

ToLowerCamelCase(words) ==
    IF words = <<>> THEN <<>> ELSE ToLower(Head(words)) \o Concat(Tail(words))

(***************************************************************************)
(* Records and their fields.                                               *)
(***************************************************************************)
NoTag == [ok |-> FALSE, value |-> <<>>]

\* The tag graphql:"Nodes".
NodesTag == [ok |-> TRUE, value |-> <<"N", "o", "d", "e", "s">>]

Tags == {NoTag, NodesTag}

Field(name, t, tag) == [Name |-> name, Type |-> t, Anonymous |-> FALSE, Tag |-> tag]

\* The type an embedded field names: t itself, or what the pointer t points to.
Named(t) == IF t.kind = "ptr" THEN t.elem ELSE t

\* An embedded field is named after its type.
Embedded(t, tag) == [Name |-> Named(t).name, Type |-> t, Anonymous |-> TRUE, Tag |-> tag]

\* Which method set of t holds UnmarshalJSON: "value" (that of t and of
\* *t), "pointer" (that of *t alone) or "none".
MethodSet(t) == IF t.kind = "struct" THEN t.unmarshal ELSE "none"

\* The embedded fields of a struct that promote an UnmarshalJSON to it.
Promoting(fields) ==
    {i \in 1..Len(fields) : fields[i].Anonymous /\ MethodSet(Named(fields[i].Type)) # "none"}

\* Go promotes the method of the one embedded field that has it; an embedded
\* pointer promotes it to the value's method set too.
Promoted(fields) ==
    IF Cardinality(Promoting(fields)) # 1 THEN "none"
    ELSE LET f == fields[CHOOSE i \in Promoting(fields) : TRUE]
         IN IF f.Type.kind = "ptr" THEN "value" ELSE MethodSet(f.Type)

\* A struct type that declares no UnmarshalJSON of its own.
Struct(name, fields) ==
    [kind |-> "struct", name |-> name, fields |-> fields, unmarshal |-> Promoted(fields)]

Sub ==
    Struct(<<"S", "u", "b">>, <<Field(<<"A">>, TInt, NoTag), Field(<<"B">>, TInt, NoTag)>>)

\* A custom scalar, as time.Time is: a struct with fields of its own and
\* func (t *Time) UnmarshalJSON.
Time ==
    [kind |-> "struct", name |-> <<"T", "i", "m", "e">>,
     fields |-> <<Field(<<"w", "a", "l", "l">>, TInt, NoTag),
                  Field(<<"e", "x", "t">>, TInt, NoTag)>>,
     unmarshal |-> "pointer"]

SelBase == {TInt, Sub, Time}

SelTypes == Wrapped(SelBase, MaxDepth)

FieldTypes == SelBase \cup Wrappers({Sub}) \cup {Ptr(TInt), Ptr(Time), Slice(Time)}

FieldNames == {<<"F", "o", "o">>, <<"B", "a", "r", "B", "a", "z">>, <<"C">>}

Fields ==
    {Field(n, t, g) : n \in FieldNames, t \in FieldTypes, g \in Tags}
        \cup {Embedded(t, g) : t \in SelBase \cup {Ptr(b) : b \in SelBase}, g \in Tags}

FieldLists ==
    {fs \in UNION {[1..n -> Fields] : n \in 0..MaxFields} :
        \A i, j \in 1..Len(fs) : i # j => fs[i].Name # fs[j].Name}

Structs == {Struct(<<"Q">>, fs) : fs \in FieldLists}

(***************************************************************************)
(* writeQuery.                                                             *)
(***************************************************************************)
\* The kinds writeQuery unwraps.
UnwrappedKinds == {"ptr", "slice"}

\* t.Implements(jsonUnmarshaler): the method set of the value alone.
ImplementsUnmarshaler(t) == t.unmarshal = "value"

\* reflect.PtrTo(t).Implements(jsonUnmarshaler).
PtrToImplementsUnmarshaler(t) == t.unmarshal \in {"value", "pointer"}

\* A field is inlined when anonymous, whatever its tag.
InlineFieldIgnoringTag(f) == f.Anonymous

\* inlineField := f.Anonymous && !ok.
InlineField(f) == f.Anonymous /\ ~f.Tag.ok

\* The selection name of a field that is not inlined.
FieldName(f) ==
    IF f.Tag.ok THEN f.Tag.value ELSE ToLowerCamelCase(ParseMixedCaps(f.Name))

RECURSIVE writeQuery(_, _)
RECURSIVE writeFields(_, _)
\* One iteration of the loop over the fields.
writeField(f) ==
    (IF ~InlineField(f) THEN FieldName(f) ELSE <<>>) \o writeQuery(f.Type, InlineField(f))

writeFields(fields, i) ==
    IF i > Len(fields) THEN <<>>
    ELSE (IF i # 1 THEN <<",">> ELSE <<>>) \o writeField(fields[i])
         \o writeFields(fields, i + 1)

writeQuery(t, inline) ==
    IF t.kind \in UnwrappedKinds THEN writeQuery(t.elem, FALSE)
    ELSE IF t.kind = "struct"
    THEN IF PtrToImplementsUnmarshaler(t) THEN <<>>
         ELSE (IF ~inline THEN <<"{">> ELSE <<>>)
              \o writeFields(t.fields, 1)
              \o (IF ~inline THEN <<"}">> ELSE <<>>)
    ELSE <<>>

query(v) == writeQuery(v, FALSE)

(***************************************************************************)
(* The operations: Query, Mutation and Static.                             *)
(***************************************************************************)
sQuery == <<"q", "u", "e", "r", "y">>

sMutation == <<"m", "u", "t", "a", "t", "i", "o", "n">>

\* Query.Query that writes the keyword only together with the name.
QueryQueryKeywordWithName(o, iter) ==
    LET named == IF o.Name # <<>> THEN sQuery \o <<" ">> \o o.Name ELSE <<>>
        args == IF Cardinality(DOMAIN o.Vars) > 0
                THEN <<"(">> \o queryArguments(o.Vars, iter) \o <<")">>
                ELSE <<>>
    IN named \o args \o query(o.Data)

\* func (op *Query) Query() string
QueryQuery(o, iter) ==
    LET named == IF o.Name # <<>> THEN sQuery \o <<" ">> \o o.Name ELSE <<>>
        args == IF Cardinality(DOMAIN o.Vars) > 0
                THEN (IF Len(named) = 0 THEN sQuery ELSE <<>>)
                     \o <<"(">> \o queryArguments(o.Vars, iter) \o <<")">>
                ELSE <<>>
    IN named \o args \o query(o.Data)

\* func (op *Mutation) Query() string
MutationQuery(o, iter) ==
    LET named == sMutation \o (IF o.Name # <<>> THEN <<" ">> \o o.Name ELSE <<>>)
        args == IF Cardinality(DOMAIN o.Vars) > 0
                THEN <<"(">> \o queryArguments(o.Vars, iter) \o <<")">>
                ELSE <<>>
    IN named \o args \o query(o.Data)

\* func (op *Static) Query() string
StaticQuery(o) == o.QueryStr

\* op.Query() on the Operation interface.
OperationQuery(o, iter) ==
    CASE o.kind = "Query" -> QueryQuery(o, iter)
      [] o.kind = "Mutation" -> MutationQuery(o, iter)
      [] o.kind = "Static" -> StaticQuery(o)

\* op.OperationName(): compiled operations embed their name in the document.
OperationName(o) == IF o.kind = "Static" THEN o.Name ELSE <<>>

\* constructQuery of query.go, whose Query has no Name.
constructQuery(v, variables, iter) ==
    IF Cardinality(DOMAIN variables) > 0
    THEN sQuery \o <<"(">> \o queryArguments(variables, iter) \o <<")">> \o query(v)
    ELSE query(v)

\* constructMutation of query.go.
constructMutation(v, variables, iter) ==
    IF Cardinality(DOMAIN variables) > 0
    THEN sMutation \o <<"(">> \o queryArguments(variables, iter) \o <<")">> \o query(v)
    ELSE sMutation \o query(v)

\* struct{Foo Int; BarBaz *Boolean}
FooBarBaz ==
    Struct(<<>>, <<Field(<<"F", "o", "o">>, TInt, NoTag),
                   Field(<<"B", "a", "r", "B", "a", "z">>, Ptr(TBoolean), NoTag)>>)

OpNames == {<<>>, <<"G", "e", "t">>}

OpData == {Ptr(FooBarBaz), Ptr(Struct(<<>>, <<>>))}

OpVars == MapsOver({<<"a">>, <<"b">>}, {TInt, Ptr(TBoolean), TChan})

\* A document written by hand.
Document == <<"{", "m", "e", "}">>

Ops ==
    {[kind |-> k, Name |-> n, Data |-> d, Vars |-> v, RequestHandler |-> h] :
        k \in {"Query", "Mutation"}, n \in OpNames, d \in OpData, v \in OpVars,
        h \in BOOLEAN}
      \cup
    {[kind |-> "Static", Name |-> n, QueryStr |-> Document, Into |-> d, Vars |-> v,
      RequestHandler |-> h] :
        n \in OpNames, d \in OpData, v \in OpVars, h \in BOOLEAN}

(***************************************************************************)
(* Client.Run.                                                             *)
(***************************************************************************)
\* A server URL, and a string url.Parse refuses.
Urls == {"http://api/graphql", "://"}

UrlParses(u) == u # "://"

\* NewClient(url, httpClient)
NewClient(u) == [url |-> u]

\* The statements of Run, the hook called before the header is set.
RunStepsHookFirst ==
    <<"encode", "newRequest", "modifyRequest", "setHeader", "do", "status", "decode",
      "unmarshal", "errors">>

\* The statements of Run in the order of the code.
RunSteps ==
    <<"encode", "newRequest", "setHeader", "modifyRequest", "do", "status", "decode",
      "unmarshal", "errors">>

\* The statement that follows step when step does not return.
Following(step) ==
    LET i == CHOOSE j \in 1..Len(RunSteps) : RunSteps[j] = step
    IN IF i = Len(RunSteps) THEN "returned" ELSE RunSteps[i + 1]

\* encoding/json has no encoding for a channel.
RECURSIVE Encodable(_)
Encodable(t) ==
    IF t.kind = "chan" THEN FALSE
    ELSE IF t.kind \in {"ptr", "slice", "array"} THEN Encodable(t.elem)
    ELSE TRUE

\* json.NewEncoder(&buf).Encode(in) returns an error.
EncodeFails(body) == \E k \in DOMAIN body.Variables : ~Encodable(body.Variables[k])

\* What ctxhttp.Do and the decoding of the body may come to.
Responses ==
    [status : {200, 500}, decodes : BOOLEAN, data : {"nil", "ok", "mismatch"},
     errors : {0, 1}]

(***************************************************************************)
(* The compiler as a state machine: call is the last function applied,     *)
(* with its arguments and what it returned.                                *)
(***************************************************************************)
NoCall == [fn |-> "none"]

NoOp == [kind |-> "none"]

NoRequest == [built |-> FALSE]

NoResponse == [status |-> 0]

NoBody == [Query |-> <<>>]

Init ==
    /\ call = NoCall
    /\ c \in {NewClient(u) : u \in Urls}
    /\ op = NoOp
    /\ pc = "idle"
    /\ in = NoBody
    /\ req = NoRequest
    /\ resp = NoResponse
    /\ modifyCalls = 0
    /\ handlerCalls = 0
    /\ sent = FALSE
    /\ err = "none"

CallWriteArgumentType ==
    /\ call = NoCall
    /\ \E t \in ArgTypes, value \in BOOLEAN :
        /\ call' = [fn |-> "writeArgumentType", t |-> t, value |-> value,
                    out |-> writeArgumentType(t, value)]
        /\ UNCHANGED runVars

CallQueryArguments ==
    /\ call = NoCall
    /\ \E variables \in VarMaps :
        \E iter \in IterOrders(variables) :
            /\ call' = [fn |-> "queryArguments", variables |-> variables, iter |-> iter,
                        out |-> queryArguments(variables, iter)]
            /\ UNCHANGED runVars

CallWriteQuery ==
    /\ call = NoCall
    /\ \E t \in SelTypes, inline \in BOOLEAN :
        /\ call' = [fn |-> "writeQuery", t |-> t, inline |-> inline,
                    out |-> writeQuery(t, inline)]
        /\ UNCHANGED runVars

\* v is a pointer to the record that mirrors the schema.
CallQuery ==
    /\ call = NoCall
    /\ \E s \in Structs :
        /\ call' = [fn |-> "query", v |-> Ptr(s), out |-> query(Ptr(s))]
        /\ UNCHANGED runVars

\* op.Query() of a Query, a Mutation or a Static.
CallOperationQuery ==
    /\ call = NoCall
    /\ \E o \in Ops :
        \E iter \in IterOrders(o.Vars) :
            /\ call' = [fn |-> "Query", op |-> o, iter |-> iter,
                        out |-> OperationQuery(o, iter)]
            /\ UNCHANGED runVars

CallConstructQuery ==
    /\ call = NoCall
    /\ \E v \in OpData, variables \in OpVars :
        \E iter \in IterOrders(variables) :
            /\ call' = [fn |-> "constructQuery", v |-> v, variables |-> variables,
                        iter |-> iter, out |-> constructQuery(v, variables, iter)]
            /\ UNCHANGED runVars

CallConstructMutation ==
    /\ call = NoCall
    /\ \E v \in OpData, variables \in OpVars :
        \E iter \in IterOrders(variables) :
            /\ call' = [fn |-> "constructMutation", v |-> v, variables |-> variables,
                        iter |-> iter, out |-> constructMutation(v, variables, iter)]
            /\ UNCHANGED runVars

\* The function returns to its caller.
Return ==
    /\ call # NoCall
    /\ call' = NoCall
    /\ UNCHANGED runVars

Next ==
    \/ CallWriteArgumentType
    \/ CallQueryArguments
    \/ CallWriteQuery
    \/ CallQuery
    \/ CallOperationQuery
    \/ CallConstructQuery
    \/ CallConstructMutation
    \/ Return

Spec == Init /\ [][Next]_vars

(***************************************************************************)
(* Client.Run, statement by statement.                                     *)
(***************************************************************************)
\* in := request{Query: op.Query(), Variables: op.Variables(), ...}
RunStart ==
    /\ pc = "idle"
    /\ \E o \in Ops :
        \E iter \in IterOrders(o.Vars) :
            /\ op' = o
            /\ in' = [Query |-> OperationQuery(o, iter), Variables |-> o.Vars,
                      OperationName |-> OperationName(o)]
    /\ pc' = RunSteps[1]
    /\ UNCHANGED <<call, c, req, resp, modifyCalls, handlerCalls, sent, err>>

Fail(e) ==
    /\ err' = e
    /\ pc' = "returned"

\* err := json.NewEncoder(&buf).Encode(in)
RunEncode ==
    /\ pc = "encode"
    /\ IF EncodeFails(in) THEN Fail("encode")
       ELSE pc' = Following("encode") /\ UNCHANGED err
    /\ UNCHANGED <<call, c, op, in, req, resp, modifyCalls, handlerCalls, sent>>

\* req, err := http.NewRequest(http.MethodPost, c.url, &buf)
RunNewRequest ==
    /\ pc = "newRequest"
    /\ IF ~UrlParses(c.url) THEN Fail("newRequest") /\ UNCHANGED req
       ELSE /\ req' = [built |-> TRUE, method |-> "POST", url |-> c.url, body |-> in,
                       header |-> [ContentType |-> "", Authorization |-> ""]]
            /\ pc' = Following("newRequest")
            /\ UNCHANGED err
    /\ UNCHANGED <<call, c, op, in, resp, modifyCalls, handlerCalls, sent>>

\* req.Header.Set("Content-Type", "application/json")
RunSetHeader ==
    /\ pc = "setHeader"
    /\ req' = [req EXCEPT !.header.ContentType = "application/json"]
    /\ pc' = Following("setHeader")
    /\ UNCHANGED <<call, c, op, in, resp, modifyCalls, handlerCalls, sent, err>>

\* op.ModifyRequest(req): the handler, when there is one, sets a header.
RunModifyRequest ==
    /\ pc = "modifyRequest"
    /\ modifyCalls' = modifyCalls + 1
    /\ IF op.RequestHandler
       THEN /\ handlerCalls' = handlerCalls + 1
            /\ req' = [req EXCEPT !.header.Authorization = "token"]
       ELSE UNCHANGED <<handlerCalls, req>>
    /\ pc' = Following("modifyRequest")
    /\ UNCHANGED <<call, c, op, in, resp, sent, err>>

\* resp, err := ctxhttp.Do(ctx, c.httpClient, req)
RunDo ==
    /\ pc = "do"
    /\ sent' = TRUE
    /\ \/ Fail("transport") /\ UNCHANGED resp
       \/ /\ resp' \in Responses
          /\ pc' = Following("do")
          /\ UNCHANGED err
    /\ UNCHANGED <<call, c, op, in, req, modifyCalls, handlerCalls>>

\* if resp.StatusCode != http.StatusOK
RunStatus ==
    /\ pc = "status"
    /\ IF resp.status # 200 THEN Fail("status")
       ELSE pc' = Following("status") /\ UNCHANGED err
    /\ UNCHANGED <<call, c, op, in, req, resp, modifyCalls, handlerCalls, sent>>

\* err = json.NewDecoder(resp.Body).Decode(&out)
RunDecode ==
    /\ pc = "decode"
    /\ IF ~resp.decodes THEN Fail("decode")
       ELSE pc' = Following("decode") /\ UNCHANGED err
    /\ UNCHANGED <<call, c, op, in, req, resp, modifyCalls, handlerCalls, sent>>

\* if out.Data != nil { err := jsonutil.UnmarshalGraphQL(...) }
RunUnmarshal ==
    /\ pc = "unmarshal"
    /\ IF resp.data = "mismatch" THEN Fail("unmarshal")
       ELSE pc' = Following("unmarshal") /\ UNCHANGED err
    /\ UNCHANGED <<call, c, op, in, req, resp, modifyCalls, handlerCalls, sent>>

\* if len(out.Errors) > 0 { return out.Errors }; return nil
RunErrors ==
    /\ pc = "errors"
    /\ err' = IF resp.errors > 0 THEN "graphql" ELSE "none"
    /\ pc' = Following("errors")
    /\ UNCHANGED <<call, c, op, in, req, resp, modifyCalls, handlerCalls, sent>>

\* Run has returned and its locals are gone; the client is free for the
\* next operation.
RunReturn ==
    /\ pc = "returned"
    /\ pc' = "idle"
    /\ op' = NoOp
    /\ in' = NoBody
    /\ req' = NoRequest
    /\ resp' = NoResponse
    /\ modifyCalls' = 0
    /\ handlerCalls' = 0
    /\ sent' = FALSE
    /\ err' = "none"
    /\ UNCHANGED <<call, c>>

RunNext ==
    \/ RunStart
    \/ RunEncode
    \/ RunNewRequest
    \/ RunSetHeader
    \/ RunModifyRequest
    \/ RunDo
    \/ RunStatus
    \/ RunDecode
    \/ RunUnmarshal
    \/ RunErrors
    \/ RunReturn

RunSpec == Init /\ [][RunNext]_vars

(***************************************************************************)
(* Claims about the argument compiler.                                     *)
(***************************************************************************)
Ascending(ks) == \A i \in 1..(Len(ks) - 1) : StringLess(ks[i], ks[i + 1])

IsList(t) == t.kind \in {"slice", "array"}

Token(body, value) == body \o (IF value THEN <<"!">> ELSE <<>>)

EndsInBang(s) == s # <<>> /\ Last(s) = "!"

\* C1: queryArguments renders one entry $<name>:<type> per key, nothing
\* between the entries, in ascending lexicographic order of the keys, and
\* renders the same bytes whatever order the map iteration produced.
C1_SortedWhateverTheIteration ==
    call.fn = "queryArguments" =>
        /\ \E ks \in IterOrders(call.variables) :
               /\ Ascending(ks)
               /\ call.out = writeArguments(call.variables, ks)
        /\ \A o \in IterOrders(call.variables) :
               queryArguments(call.variables, o) = call.out

\* The map {b: *Boolean, a: Int}, visited b first.
C1_Witness ==
    /\ call.fn = "queryArguments"
    /\ call.iter = << <<"b">>, <<"a">> >>
    /\ call.variables[<<"a">>] = TInt
    /\ call.variables[<<"b">>] = Ptr(TBoolean)
    /\ Join(call.out) = "$a:Int!$b:Boolean"

\* C3: the token of pointer-to-T, T no pointer, resolved as required is the
\* token of T resolved as required without its trailing "!"; and the token
\* of a type whose outermost layer is a pointer never ends in "!".
C3_PointerDropsBang ==
    (call.fn = "writeArgumentType" /\ call.t.kind = "ptr") =>
        /\ ~EndsInBang(call.out)
        /\ (call.value /\ call.t.elem.kind # "ptr") =>
               /\ EndsInBang(writeArgumentType(call.t.elem, TRUE))
               /\ call.out \o <<"!">> = writeArgumentType(call.t.elem, TRUE)

\* *Int resolved as required is Int.
C3_Witness ==
    /\ call.fn = "writeArgumentType"
    /\ call.t = Ptr(TInt)
    /\ call.value
    /\ Join(call.out) = "Int"

\* C4: the token of a list of E is "[" token(E, required) "]", followed by
\* "!" exactly when the list itself is resolved as required, which it never
\* is when it is what a pointer points to; a list of non-pointer named Elem
\* has the bracketed part [Elem!], a list of pointers to Elem has [Elem].
C4_ListToken ==
    call.fn = "writeArgumentType" =>
        /\ IsList(call.t) =>
               /\ call.out = Token(<<"[">> \o writeArgumentType(call.t.elem, TRUE) \o <<"]">>,
                                   call.value)
               /\ EndsInBang(call.out) <=> call.value
               /\ ~IsList(call.t.elem) /\ call.t.elem.kind # "ptr" =>
                      call.out = Token(<<"[">> \o TypeName(call.t.elem) \o <<"!", "]">>,
                                       call.value)
               /\ (call.t.elem.kind = "ptr" /\ ~IsList(call.t.elem.elem)
                       /\ call.t.elem.elem.kind # "ptr") =>
                      call.out = Token(<<"[">> \o TypeName(call.t.elem.elem) \o <<"]">>,
                                       call.value)
        /\ (call.t.kind = "ptr" /\ IsList(call.t.elem)) =>
               call.out = <<"[">> \o writeArgumentType(call.t.elem.elem, TRUE) \o <<"]">>

\* A list, not required itself, of required Int.
C4_Witness ==
    /\ call.fn = "writeArgumentType"
    /\ call.t = Array(TInt)
    /\ ~call.value
    /\ Join(call.out) = "[Int!]"

\* C8: a type named string renders as ID: string is ID!, *string is ID and
\* []string is [ID!]!; every other named type renders under its own name.
C8_StringIsID ==
    (call.fn = "writeArgumentType" /\ call.value) =>
        /\ call.t = Tstring => Join(call.out) = "ID!"
        /\ call.t = Ptr(Tstring) => Join(call.out) = "ID"
        /\ call.t = Slice(Tstring) => Join(call.out) = "[ID!]!"
        /\ (call.t \in ArgBase /\ call.t # Tstring) => call.out = call.t.name \o <<"!">>
        /\ call.t = TString => Join(call.out) = "String!"

\* []string resolved as required.
C8_Witness ==
    /\ call.fn = "writeArgumentType"
    /\ call.t = Slice(Tstring)
    /\ call.value
    /\ Join(call.out) = "[ID!]!"

(***************************************************************************)
(* Claims about the operations.                                            *)
(***************************************************************************)
Maybe(cond, str) == IF cond THEN str ELSE <<>>

\* The document the spec gives for a Query: the keyword whenever asked for.
Assembled(keyword, name, variables, iter, data) ==
    keyword
        \o Maybe(name # <<>>, <<" ">> \o name)
        \o Maybe(DOMAIN variables # {}, <<"(">> \o queryArguments(variables, iter) \o <<")">>)
        \o query(data)

\* C2 as the spec states it: Query() is the keyword query, then " Name" when
\* there is a name, then the parenthesized declarations when there are
\* variables, then the selection set of Data.
C2_KeywordAlways ==
    /\ (call.fn = "Query" /\ call.op.kind = "Query") =>
           call.out = Assembled(sQuery, call.op.Name, call.op.Vars, call.iter, call.op.Data)
    /\ call.fn = "constructQuery" =>
           call.out = Assembled(sQuery, <<>>, call.variables, call.iter, call.v)

\* C2, amended: the keyword query is written exactly when there is a name or
\* there are variables; then " Name" when there is a name, the parenthesized
\* declarations when there are variables, and the selection set of Data.
\* With neither name nor variables the document is the bare selection set.
C2_KeywordWithNameOrVars ==
    /\ (call.fn = "Query" /\ call.op.kind = "Query") =>
           /\ call.out = Assembled(Maybe(call.op.Name # <<>> \/ DOMAIN call.op.Vars # {}, sQuery),
                                   call.op.Name, call.op.Vars, call.iter, call.op.Data)
           /\ (call.op.Name = <<>> /\ DOMAIN call.op.Vars = {}) =>
                  call.out = query(call.op.Data)
           /\ (call.op.Name = <<>> /\ call.op.Data = Ptr(FooBarBaz)
                   /\ call.op.Vars = (<<"a">> :> TInt @@ <<"b">> :> Ptr(TBoolean))) =>
                  Join(call.out) = "query($a:Int!$b:Boolean){foo,barBaz}"
    /\ call.fn = "constructQuery" =>
           call.out = Assembled(Maybe(DOMAIN call.variables # {}, sQuery),
                                <<>>, call.variables, call.iter, call.v)

\* The unnamed Query with a: Int and b: *Boolean over {Foo; BarBaz}.
C2_Witness ==
    /\ call.fn = "Query"
    /\ call.op.kind = "Query"
    /\ call.op.Name = <<>>
    /\ call.op.Vars = (<<"a">> :> TInt @@ <<"b">> :> Ptr(TBoolean))
    /\ call.iter = << <<"b">>, <<"a">> >>
    /\ Join(call.out) = "query($a:Int!$b:Boolean){foo,barBaz}"

(***************************************************************************)
(* Claims about the selection compiler.                                    *)
(***************************************************************************)
RECURSIVE JoinComma(_)
JoinComma(parts) ==
    IF parts = <<>> THEN <<>>
    ELSE IF Len(parts) = 1 THEN parts[1]
    ELSE parts[1] \o <<",">> \o JoinComma(Tail(parts))

Braced(parts) == <<"{">> \o JoinComma(parts) \o <<"}">>

IsRecord(t) == t.kind = "struct"

\* A record that decodes itself from JSON, by a method of the value or of
\* the pointer to it.
CustomScalar(t) == IsRecord(t) /\ t.unmarshal \in {"value", "pointer"}

\* query applied to a pointer to a record that is no custom scalar.
CompiledRecord == call.fn = "query" /\ ~CustomScalar(call.v.elem)

\* An anonymous field without a graphql tag whose type is a record or a
\* pointer to a record.
C5_Covers(f) ==
    /\ f.Anonymous
    /\ ~f.Tag.ok
    /\ IsRecord(f.Type) \/ (f.Type.kind = "ptr" /\ IsRecord(f.Type.elem))

\* C5: an anonymous field without a graphql tag whose type is a record or a
\* pointer to a record contributes neither a name nor braces: the fields of
\* its type are spliced into the enclosing braces.
C5_EmbeddedSpliced ==
    CompiledRecord =>
        LET fs == call.v.elem.fields
        IN call.out = Braced([i \in 1..Len(fs) |->
                                 IF C5_Covers(fs[i])
                                 THEN writeFields(Named(fs[i].Type).fields, 1)
                                 ELSE writeField(fs[i])])

\* A field that is not inlined and whose type is a custom scalar record, or
\* a pointer to or a slice of one.
C6_Covers(f) ==
    /\ ~(f.Anonymous /\ ~f.Tag.ok)
    /\ \/ CustomScalar(f.Type)
       \/ f.Type.kind \in {"ptr", "slice"} /\ CustomScalar(f.Type.elem)

\* C6: a field that is not inlined and whose type is a custom scalar record,
\* or a pointer to or a slice of one, is its selection name and nothing
\* more: no braces, none of the record's fields.
C6_CustomScalarIsLeaf ==
    CompiledRecord =>
        LET fs == call.v.elem.fields
        IN call.out = Braced([i \in 1..Len(fs) |->
                                 IF C6_Covers(fs[i]) THEN FieldName(fs[i])
                                 ELSE writeField(fs[i])])

\* struct{Foo []Time; C Sub}
C6_Witness ==
    /\ call.fn = "query"
    /\ Len(call.v.elem.fields) = 2
    /\ call.v.elem.fields[1] = Field(<<"F", "o", "o">>, Slice(Time), NoTag)
    /\ Join(call.out) = "{foo,c{a,b}}"

\* What a tagged field is to contribute: the tag's value, then the
\* selection of its type, a record in braces of its own.
C7_Part(f) ==
    f.Tag.value
        \o (IF IsRecord(f.Type) /\ ~CustomScalar(f.Type)
            THEN <<"{">> \o writeFields(f.Type.fields, 1) \o <<"}">>
            ELSE writeQuery(f.Type, FALSE))

\* C7: a field with a graphql tag is the tag's value, verbatim, followed by
\* the selection of its type compiled with inline=false, anonymous or not; a
\* record type comes in braces of its own after the name.
C7_TagNamesAndNeverInlines ==
    CompiledRecord =>
        LET fs == call.v.elem.fields
        IN call.out = Braced([i \in 1..Len(fs) |->
                                 IF fs[i].Tag.ok THEN C7_Part(fs[i])
                                 ELSE writeField(fs[i])])

\* struct{Sub `graphql:"Nodes"`}
C7_Witness ==
    /\ call.fn = "query"
    /\ call.v.elem.fields = <<Embedded(Sub, NodesTag)>>
    /\ Join(call.out) = "{Nodes{a,b}}"

\* C10: what is emitted for a pointer to T, a slice of T or an array of T
\* is what is emitted for T compiled with inline=false.
C10_WrappersAreTransparent ==
    (call.fn = "writeQuery" /\ call.t.kind \in {"ptr", "slice", "array"}) =>
        call.out = writeQuery(call.t.elem, FALSE)

(***************************************************************************)
(* Claims about Client.Run.                                                *)
(***************************************************************************)
\* The hook has run at most once, the handler only through it, not at all
\* when Run failed before it, and once when the request went out.
C9_AtMostOnce ==
    /\ modifyCalls <= 1
    /\ handlerCalls <= modifyCalls
    /\ err \in {"encode", "newRequest"} => modifyCalls = 0 /\ handlerCalls = 0
    /\ sent => modifyCalls = 1

\* A step that invokes the hook acts on a built request whose Content-Type
\* is set, and does not send it.
C9_HookStep ==
    (modifyCalls' > modifyCalls \/ handlerCalls' > handlerCalls) =>
        /\ req.built
        /\ req.header.ContentType = "application/json"
        /\ ~sent /\ ~sent'
        /\ modifyCalls' = modifyCalls + 1

\* C9: in an execution of Run the hook ModifyRequest, and through it
\* RequestHandler, is invoked at most once; it is invoked on a request that
\* has been built and has its Content-Type set, before the request is sent;
\* and it is not invoked when encoding the body or building the request fails.
C9_HookOnceBetweenHeaderAndSend == [](C9_AtMostOnce) /\ [][C9_HookStep]_vars

\* A run whose handler ran and that went through without error.
C9_Witness ==
    /\ pc = "returned"
    /\ err = "none"
    /\ sent
    /\ modifyCalls = 1
    /\ handlerCalls = 1
    /\ req.header.ContentType = "application/json"

====
